---------------------------- MODULE Spec2Model ----------------------------
(***************************************************************************)
(* A model of jsacmi: the Tacview ACMI track engine.                       *)
(*                                                                         *)
(*   src/src/trackio.js (the later copy, lines 160-407): the line-oriented *)
(*   loader loadACMI with parseUpdate / parseRemove, and the serializer    *)
(*   saveACMI;                                                             *)
(*   src/src/jsacmi.js: TrackObject (timeline search and interpolation)    *)
(*   and TrackDatabase.                                                    *)
(*                                                                         *)
(* Text is modelled as sequences of one-character strings, so that the     *)
(* regular expressions, parseInt, parseFloat and Number.toString of the    *)
(* source are computed character by character.  JavaScript numbers are     *)
(* modelled as exact rationals together with NaN and the two infinities.   *)
(***************************************************************************)
EXTENDS Integers, Sequences, FiniteSets, TLC

(***************************************************************************)
(* JavaScript values                                                       *)
(***************************************************************************)

\* null, undefined and NaN
Null == [k |-> "null"]
Undefined == [k |-> "undefined"]
NaN == [k |-> "nan"]

Abs(i) == IF i < 0 THEN -i ELSE i

RECURSIVE Gcd(_, _)
Gcd(a, b) == IF b = 0 THEN a ELSE Gcd(b, a % b)

\* a finite number n/d in lowest terms, d > 0
Rat(n, d) ==
    LET s == IF d < 0 THEN -1 ELSE 1
        g == Gcd(Abs(n), Abs(d))
    IN  [k |-> "num", n |-> (s * n) \div g, d |-> (s * d) \div g]

Num(i) == [k |-> "num", n |-> i, d |-> 1]

\* +Infinity (sg = 1) and -Infinity (sg = -1)
Inf(sg) == [k |-> "inf", n |-> sg]

\* a string value, a coordinate array, a thrown exception
Text(s) == [k |-> "text", s |-> s]
Coords(c) == [k |-> "coords", c |-> c]
Throw(e) == [k |-> "throw", e |-> e]

Sign(v) == IF v.n > 0 THEN 1 ELSE IF v.n < 0 THEN -1 ELSE 0

\* IEEE-754 arithmetic on numbers, exact on the finite ones
NumAdd(a, b) ==
    IF a.k = "nan" \/ b.k = "nan" THEN NaN
    ELSE IF a.k = "inf" /\ b.k = "inf" THEN (IF a.n = b.n THEN a ELSE NaN)
    ELSE IF a.k = "inf" THEN a
    ELSE IF b.k = "inf" THEN b
    ELSE Rat(a.n * b.d + b.n * a.d, a.d * b.d)

NumNeg(a) ==
    IF a.k = "nan" THEN NaN
    ELSE IF a.k = "inf" THEN Inf(-a.n)
    ELSE Rat(-a.n, a.d)

NumSub(a, b) == NumAdd(a, NumNeg(b))

NumMul(a, b) ==
    IF a.k = "nan" \/ b.k = "nan" THEN NaN
    ELSE IF a.k = "inf" \/ b.k = "inf"
         THEN (IF Sign(a) * Sign(b) = 0 THEN NaN ELSE Inf(Sign(a) * Sign(b)))
    ELSE Rat(a.n * b.n, a.d * b.d)

NumDiv(a, b) ==
    IF a.k = "nan" \/ b.k = "nan" THEN NaN
    ELSE IF a.k = "inf" /\ b.k = "inf" THEN NaN
    ELSE IF a.k = "inf" THEN Inf(IF Sign(b) < 0 THEN -a.n ELSE a.n)
    ELSE IF b.k = "inf" THEN Num(0)
    ELSE IF b.n = 0 THEN (IF a.n = 0 THEN NaN ELSE Inf(Sign(a)))
    ELSE Rat(a.n * b.d, a.d * b.n)

\* a <= b and a < b on numbers: false as soon as one side is NaN
NumLE(a, b) ==
    IF a.k = "nan" \/ b.k = "nan" THEN FALSE
    ELSE IF a.k = "inf" THEN (a.n = -1 \/ a = b)
    ELSE IF b.k = "inf" THEN b.n = 1
    ELSE a.n * b.d <= b.n * a.d

NumLT(a, b) == NumLE(a, b) /\ a # b


(***************************************************************************)
(* Text: a string is a sequence of one-character strings                   *)
(***************************************************************************)

Digits == {"0", "1", "2", "3", "4", "5", "6", "7", "8", "9"}
HexDigits == Digits \cup {"a", "b", "c", "d", "e", "f", "A", "B", "C", "D", "E", "F"}
WhiteSpace == {" ", "\t"}

HexVal(c) ==
    CASE c = "0" -> 0 [] c = "1" -> 1 [] c = "2" -> 2 [] c = "3" -> 3
      [] c = "4" -> 4 [] c = "5" -> 5 [] c = "6" -> 6 [] c = "7" -> 7
      [] c = "8" -> 8 [] c = "9" -> 9
      [] c \in {"a", "A"} -> 10 [] c \in {"b", "B"} -> 11
      [] c \in {"c", "C"} -> 12 [] c \in {"d", "D"} -> 13
      [] c \in {"e", "E"} -> 14 [] c \in {"f", "F"} -> 15

HexChar(v) ==
    <<"0", "1", "2", "3", "4", "5", "6", "7", "8", "9",
      "a", "b", "c", "d", "e", "f">>[v + 1]

\* s.substr(i - 1): the characters from position i on (positions count from 1)
From(s, i) == SubSeq(s, i, Len(s))

StartsWith(s, p) == Len(s) >= Len(p) /\ SubSeq(s, 1, Len(p)) = p

\* the first position >= i whose character is not in set cs (Len(s) + 1 if none)
RECURSIVE SkipWhile(_, _, _)
SkipWhile(s, i, cs) ==
    IF i <= Len(s) /\ s[i] \in cs THEN SkipWhile(s, i + 1, cs) ELSE i

\* the first position >= i whose character is in set cs (Len(s) + 1 if none)
RECURSIVE SkipUntil(_, _, _)
SkipUntil(s, i, cs) ==
    IF i <= Len(s) /\ s[i] \notin cs THEN SkipUntil(s, i + 1, cs) ELSE i

\* the last position <= i whose character is not in set cs (0 if none)
RECURSIVE SkipBackWhile(_, _, _)
SkipBackWhile(s, i, cs) ==
    IF i >= 1 /\ s[i] \in cs THEN SkipBackWhile(s, i - 1, cs) ELSE i

\* String.prototype.trim, on the white space a line can hold
Trim(s) ==
    LET a == SkipWhile(s, 1, WhiteSpace)
        b == SkipBackWhile(s, Len(s), WhiteSpace)
    IN  IF a > b THEN <<>> ELSE SubSeq(s, a, b)

RECURSIVE Pow10(_)
Pow10(e) == IF e = 0 THEN 1 ELSE 10 * Pow10(e - 1)

\* the value of the digits of s in the given base, most significant first
RECURSIVE DigitsVal(_, _, _)
DigitsVal(s, base, acc) ==
    IF s = <<>> THEN acc
    ELSE DigitsVal(Tail(s), base, acc * base + HexVal(Head(s)))

\* the digits of n >= 0 in the given base
RECURSIVE NatToString(_, _)
NatToString(n, base) ==
    IF n < base THEN <<HexChar(n)>>
    ELSE NatToString(n \div base, base) \o <<HexChar(n % base)>>

IntToString(n, base) ==
    IF n < 0 THEN <<"-">> \o NatToString(-n, base) ELSE NatToString(n, base)

\* parseFloat(s): leading white space, an optional sign, then the longest
\* prefix  digits [. digits]  or  . digits ; NaN when there is none.
\* (Exponents and the literal Infinity do not occur in the modelled input.)
ParseFloat(s) ==
    LET a  == SkipWhile(s, 1, WhiteSpace)
        sg == IF a <= Len(s) /\ s[a] = "-" THEN -1 ELSE 1
        b  == IF a <= Len(s) /\ s[a] \in {"-", "+"} THEN a + 1 ELSE a
        c  == SkipWhile(s, b, Digits)
        hasDot == c <= Len(s) /\ s[c] = "."
        e  == IF hasDot THEN SkipWhile(s, c + 1, Digits) ELSE c
        ip == SubSeq(s, b, c - 1)
        fp == IF hasDot THEN SubSeq(s, c + 1, e - 1) ELSE <<>>
    IN  IF ip = <<>> /\ fp = <<>> THEN NaN
        ELSE Rat(sg * (DigitsVal(ip, 10, 0) * Pow10(Len(fp)) + DigitsVal(fp, 10, 0)),
                 Pow10(Len(fp)))

\* parseInt(s, 16): leading white space, an optional sign, an optional 0x,
\* then the longest run of hexadecimal digits; NaN when the run is empty.
ParseInt16(s) ==
    LET a  == SkipWhile(s, 1, WhiteSpace)
        sg == IF a <= Len(s) /\ s[a] = "-" THEN -1 ELSE 1
        b  == IF a <= Len(s) /\ s[a] \in {"-", "+"} THEN a + 1 ELSE a
        c  == IF b + 1 <= Len(s) /\ s[b] = "0" /\ s[b + 1] \in {"x", "X"}
              THEN b + 2 ELSE b
        e  == SkipWhile(s, c, HexDigits)
    IN  IF e = c THEN NaN ELSE Num(sg * DigitsVal(SubSeq(s, c, e - 1), 16, 0))

\* parseInt(s) without a radix, on the decimal keys saveACMI hands it
ParseInt10(s) ==
    LET sg == IF s # <<>> /\ s[1] = "-" THEN -1 ELSE 1
        b  == IF s # <<>> /\ s[1] \in {"-", "+"} THEN 2 ELSE 1
        e  == SkipWhile(s, b, Digits)
    IN  IF e = b THEN NaN ELSE Num(sg * DigitsVal(SubSeq(s, b, e - 1), 10, 0))

\* the least e with d dividing 10^e (d = 2^a * 5^b for every number parseFloat
\* produces from a decimal literal)
RECURSIVE FracDigits(_, _)
FracDigits(d, e) == IF Pow10(e) % d = 0 THEN e ELSE FracDigits(d, e + 1)

\* the digits of n, left-padded with zeros to width w
RECURSIVE PadLeft(_, _)
PadLeft(s, w) == IF Len(s) >= w THEN s ELSE PadLeft(<<"0">> \o s, w)

\* Number.prototype.toString(): the shortest decimal that reads back as the
\* number; for a number read from a decimal literal that is its digits
\* without trailing zeros (exponent notation, used from 1e21 and below 1e-6,
\* is outside the modelled range).
NumToString(v) ==
    IF v.k = "nan" THEN <<"N", "a", "N">>
    ELSE IF v.k = "inf"
         THEN (IF v.n < 0 THEN <<"-">> ELSE <<>>)
              \o <<"I", "n", "f", "i", "n", "i", "t", "y">>
    ELSE LET e  == FracDigits(v.d, 0)
             m  == Abs(v.n) * (Pow10(e) \div v.d)
             ip == NatToString(m \div Pow10(e), 10)
             fp == IF e = 0 THEN <<>>
                   ELSE <<".">> \o PadLeft(NatToString(m % Pow10(e), 10), e)
         IN  (IF v.n < 0 THEN <<"-">> ELSE <<>>) \o ip \o fp

\* str.split(sep) on a one-character separator: always at least one piece
RECURSIVE SplitOn(_, _)
SplitOn(s, sep) ==
    LET p == SkipUntil(s, 1, {sep})
    IN  IF p > Len(s) THEN <<s>>
        ELSE <<SubSeq(s, 1, p - 1)>> \o SplitOn(From(s, p + 1), sep)

(***************************************************************************)
(* src/src/trackio.js: the helper functions                                *)
(***************************************************************************)

\* startsWithObjectId: /^[0-9A-Fa-f]+/ matches
startsWithObjectId(str) == str # <<>> /\ str[1] \in HexDigits

\* a faulty variant of Tokenize, which closes the run at every comma
RECURSIVE TokenizeEvery(_, _, _, _)
TokenizeEvery(str, i, cur, acc) ==
    IF i > Len(str) THEN (IF cur = <<>> THEN acc ELSE Append(acc, cur))
    ELSE IF str[i] # ","
         THEN TokenizeEvery(str, i + 1, Append(cur, str[i]), acc)
    ELSE TokenizeEvery(str, i + 1, <<>>, IF cur = <<>> THEN acc ELSE Append(acc, cur))

\* tokenizeUpdate: str.match(/((\\,)|[^,])+/g), the maximal runs of "\," and
\* of characters other than the comma.  cur is the run being read, acc the
\* runs already closed.  (JavaScript returns null when there is no run; the
\* callers only pass strings that begin with a hexadecimal digit.)
RECURSIVE Tokenize(_, _, _, _)
Tokenize(str, i, cur, acc) ==
    IF i > Len(str) THEN (IF cur = <<>> THEN acc ELSE Append(acc, cur))
    ELSE IF str[i] = "\\" /\ i < Len(str) /\ str[i + 1] = ","
         THEN Tokenize(str, i + 2, cur \o <<"\\", ",">>, acc)
    ELSE IF str[i] # ","
         THEN Tokenize(str, i + 1, Append(cur, str[i]), acc)
    ELSE Tokenize(str, i + 1, <<>>, IF cur = <<>> THEN acc ELSE Append(acc, cur))

tokenizeUpdate(str) == Tokenize(str, 1, <<>>, <<>>)

\* The first position p >= i with str[p] = "#" and a digit after it, 0 if none:
\* where /#(\d+\.?\d*)/ matches.
RECURSIVE FindTimeOffset(_, _)
FindTimeOffset(str, i) ==
    IF i >= Len(str) THEN 0
    ELSE IF str[i] = "#" /\ str[i + 1] \in Digits THEN i
    ELSE FindTimeOffset(str, i + 1)

\* parseTimeOffset: parseFloat(str.match(/#(\d+\.?\d*)/)[1]); indexing the
\* null of a failed match throws a TypeError.
parseTimeOffset(str) ==
    LET p == FindTimeOffset(str, 1)
        a == SkipWhile(str, p + 1, Digits)
        b == IF a <= Len(str) /\ str[a] = "." THEN a + 1 ELSE a
        c == SkipWhile(str, b, Digits)
    IN  IF p = 0 THEN Throw("TypeError")
        ELSE ParseFloat(SubSeq(str, p + 1, c - 1))

RECURSIVE MapParseFloat(_)
MapParseFloat(fields) ==
    IF fields = <<>> THEN <<>>
    ELSE <<ParseFloat(Head(fields))>> \o MapParseFloat(Tail(fields))

\* a faulty variant of parseObjectCoords, which accepts any number of
\* components
parseObjectCoordsAny(str) == Coords(MapParseFloat(SplitOn(str, "|")))

\* parseObjectCoords: the components between the pipes, each through
\* parseFloat; null unless there are 3, 5 or 9 of them.
parseObjectCoords(str) ==
    LET fields == MapParseFloat(SplitOn(str, "|"))
    IN  IF Len(fields) \in {3, 5, 9} THEN Coords(fields) ELSE Null

\* elem.match(/([^=]+)=(.*)/): the leftmost match starts at the first
\* character that is not "=", and the name runs to the next "=".  The result
\* is <<name, value>>, or Null when the pattern does not match.
MatchField(elem) ==
    LET i == SkipWhile(elem, 1, {"="})
        p == SkipUntil(elem, i, {"="})
    IN  IF i > Len(elem) \/ p > Len(elem) THEN Null
        ELSE [k |-> "match", name |-> SubSeq(elem, i, p - 1), value |-> From(elem, p + 1)]

(***************************************************************************)
(* src/src/jsacmi.js: timeline entries and TrackObject                     *)
(*                                                                         *)
(* A timeline entry is a JavaScript object: here the sequence of its       *)
(* properties [name, val] in insertion order.  Its time offset is the      *)
(* property named "#".  Positions in vals count from 0 as in the source.   *)
(***************************************************************************)

Hash == <<"#">>
TName == <<"T">>

\* name in e
Has(e, name) == \E i \in DOMAIN e : e[i].name = name

\* e[name]
Get(e, name) ==
    IF Has(e, name) THEN e[CHOOSE i \in DOMAIN e : e[i].name = name].val
    ELSE Undefined

\* e[name] = val
Put(e, name, val) ==
    IF Has(e, name)
    THEN [e EXCEPT ![CHOOSE i \in DOMAIN e : e[i].name = name].val = val]
    ELSE Append(e, [name |-> name, val |-> val])

\* vals[i]
At(vals, i) == vals[i + 1]

\* Number(v) on a string: the whole trimmed string must be a decimal literal
StringToNumber(str) ==
    LET t == Trim(str)
        b == IF t # <<>> /\ t[1] \in {"-", "+"} THEN 2 ELSE 1
        c == SkipWhile(t, b, Digits)
        e == IF c <= Len(t) /\ t[c] = "." THEN SkipWhile(t, c + 1, Digits) ELSE c
    IN  IF t = <<>> THEN Num(0)
        ELSE IF e > Len(t) THEN ParseFloat(t)
        ELSE NaN

\* the conversion to a number that the arithmetic and relational operators
\* apply to an operand
ToNumber(v) ==
    CASE v.k \in {"num", "nan", "inf"} -> v
      [] v.k = "text" -> StringToNumber(v.s)
      [] v.k = "null" -> Num(0)
      [] v.k = "coords" -> IF Len(v.c) = 1 THEN v.c[1] ELSE NaN
      [] OTHER -> NaN

\* lerp, lines 5-7
lerp(start, end, amt) ==
    NumAdd(NumMul(NumSub(Num(1), amt), ToNumber(start)), NumMul(amt, ToNumber(end)))

\* createObject, lines 136-138
createObject(time) == [start |-> time, end |-> Null, vals |-> <<>>]

\* createEntry, lines 140-142: parseFloat converts its argument to a string
createEntry(time) == <<[name |-> Hash, val |-> ParseFloat(NumToString(time))]>>

\* a faulty variant of addEntry, which puts the entry before the others
addEntryFront(data, entry) == [data EXCEPT !.vals = <<entry>> \o @]

\* addEntry, lines 144-146
addEntry(data, entry) == [data EXCEPT !.vals = Append(@, entry)]

\* The two predicate/accessor pairs the queries pass to the search:
\*   ByName(name):   (e) => name in e,  (e) => e[name]
\*   ByCoord(coord): (e) => 'T' in e && e['T'].length > coord
\*                          && e['T'][coord] != null,  (e) => e['T'][coord]
ByName(name) == [kind |-> "name", name |-> name, coord |-> 0]
ByCoord(coord) == [kind |-> "coord", name |-> TName, coord |-> coord]

\* comp(e).  Only null and undefined are == null: a NaN component is not.
Comp(q, e) ==
    IF q.kind = "name" THEN Has(e, q.name)
    ELSE /\ Has(e, TName)
         /\ Get(e, TName).k = "coords"
         /\ Len(Get(e, TName).c) > q.coord
         /\ Get(e, TName).c[q.coord + 1].k \notin {"null", "undefined"}

\* retrieve(e) on an entry
Retrieve(q, e) ==
    IF q.kind = "name" THEN Get(e, q.name) ELSE Get(e, TName).c[q.coord + 1]

\* retrieve(r) on the result r of findNearestValue: the entry found, or null,
\* and reading a property of null is a TypeError
RetrieveFound(q, r) ==
    IF r.k = "null" THEN Throw("TypeError") ELSE Retrieve(q, r.e)

\* findNearestValueIndex, lines 18-32; index is a position of vals
RECURSIVE findNearestValueIndex(_, _, _, _)
findNearestValueIndex(vals, q, index, delta) ==
    IF Comp(q, At(vals, index)) THEN index
    ELSE IF index + delta < 0 \/ index + delta >= Len(vals) THEN -1
    ELSE findNearestValueIndex(vals, q, index + delta, delta)

\* findNearestValue, lines 34-38: null, or the entry found
EntryAt(vals, ndx) == IF ndx = -1 THEN Null ELSE [k |-> "entry", e |-> At(vals, ndx)]

findNearestValue(vals, q, index, delta) ==
    EntryAt(vals, findNearestValueIndex(vals, q, index, delta))

\* a faulty variant of findLastValue, which searches from the first entry on
findLastValueForward(vals, q) == findNearestValue(vals, q, 0, 1)

\* findFirstValue and findLastValue, lines 40-46
findFirstValue(vals, q) == findNearestValue(vals, q, 0, 1)
findLastValue(vals, q) == findNearestValue(vals, q, Len(vals) - 1, -1)

\* the time offset of an entry as the comparisons and subtractions see it
TimeAt(vals, i) == ToNumber(Get(At(vals, i), Hash))

\* binTimeSearch, lines 48-61.  The result is a position, or the exception
\* the call ends with: reading '#' of the undefined vals[mid + 1] is a
\* TypeError, and a call that recurses on its own arguments never returns
\* (a RangeError when the stack is exhausted).
RECURSIVE binTimeSearch(_, _, _, _)
\* a faulty variant of binTimeStep, which takes the interval at mid without
\* comparing the time with t2
binTimeStepLoose(vals, time, ndx1, ndx2, mid, t1, t2) ==
    IF NumLE(t1, time) THEN Num(mid)
    ELSE IF ndx1 >= ndx2 THEN Throw("RangeError")
    ELSE binTimeSearch(vals, time, ndx1, mid)

\* lines 51-60, mid being the middle position and t1, t2 the times of the
\* entries at mid and mid + 1
binTimeStep(vals, time, ndx1, ndx2, mid, t1, t2) ==
    IF NumLE(t1, time) /\ NumLE(time, t2) THEN Num(mid)
    ELSE IF ndx1 >= ndx2 THEN Throw("RangeError")
    ELSE IF NumLT(time, t1) THEN binTimeSearch(vals, time, ndx1, mid)
    ELSE binTimeSearch(vals, time, mid + 1, ndx2)

\* lines 49-51
binTimeMid(vals, time, ndx1, ndx2, mid) ==
    IF mid + 1 >= Len(vals) THEN Throw("TypeError")
    ELSE binTimeStep(vals, time, ndx1, ndx2, mid, TimeAt(vals, mid), TimeAt(vals, mid + 1))

\* a faulty variant of binTimeSearch, which rounds the middle position up
binTimeSearchCeil(vals, time, ndx1, ndx2) ==
    binTimeMid(vals, time, ndx1, ndx2, (ndx1 + ndx2 + 1) \div 2)

binTimeSearch(vals, time, ndx1, ndx2) ==
    binTimeMid(vals, time, ndx1, ndx2, (ndx1 + ndx2) \div 2)

\* findTimeIndex, lines 63-71; vals[0] of an empty timeline is undefined
findTimeIndex(vals, time) ==
    IF vals = <<>> THEN Throw("TypeError")
    ELSE IF NumLE(time, TimeAt(vals, 0)) THEN Num(0)
    ELSE IF NumLE(TimeAt(vals, Len(vals) - 1), time) THEN Num(Len(vals) - 1)
    ELSE binTimeSearch(vals, time, 0, Len(vals) - 1)

\* findNumberAtTime, lines 82-105
\* lines 97-104: the interpolation between the entries at prevIndex and
\* nextIndex, whose times are prevTime and nextTime
Interpolate(vals, q, time, prevIndex, nextIndex, prevTime, nextTime) ==
    lerp(Retrieve(q, At(vals, prevIndex)), Retrieve(q, At(vals, nextIndex)),
         NumDiv(NumSub(time, prevTime), NumSub(nextTime, prevTime)))

\* lines 94-97
Between(vals, q, time, prevIndex, nextIndex) ==
    IF prevIndex = -1 \/ nextIndex = -1 THEN Num(0)
    ELSE Interpolate(vals, q, time, prevIndex, nextIndex,
                     TimeAt(vals, prevIndex), TimeAt(vals, nextIndex))

\* lines 86-94, startIndex being the result of findTimeIndex
NumberFrom(vals, q, time, startIndex) ==
    IF startIndex.k = "throw" THEN startIndex
    ELSE IF startIndex.n <= 0 THEN RetrieveFound(q, findFirstValue(vals, q))
    ELSE IF startIndex.n >= Len(vals) - 1 THEN RetrieveFound(q, findLastValue(vals, q))
    ELSE Between(vals, q, time,
                 findNearestValueIndex(vals, q, startIndex.n, -1),
                 findNearestValueIndex(vals, q, startIndex.n + 1, 1))

findNumberAtTime(vals, q, time) ==
    NumberFrom(vals, q, time, findTimeIndex(vals, time))

\* r[name] on the result r of findNearestValue, a TypeError when r is null
Prop(r, name) == IF r.k = "null" THEN Throw("TypeError") ELSE Get(r.e, name)

\* getNumberAtTime, lines 115-117
getNumberAtTime(vals, name, time) == findNumberAtTime(vals, ByName(name), time)

\* getValueAtTime, lines 119-130
\* lines 121-129, startIndex being the result of findTimeIndex
ValueFrom(vals, name, startIndex) ==
    IF startIndex.k = "throw" THEN startIndex
    ELSE IF startIndex.n <= 0 THEN Prop(findFirstValue(vals, ByName(name)), name)
    ELSE IF startIndex.n >= Len(vals) - 1
         THEN Prop(findLastValue(vals, ByName(name)), name)
    ELSE Prop(findNearestValue(vals, ByName(name), startIndex.n, -1), name)

getValueAtTime(vals, name, time) == ValueFrom(vals, name, findTimeIndex(vals, time))

\* getCoordAtTime, lines 132-134
getCoordAtTime(vals, coord, time) == findNumberAtTime(vals, ByCoord(coord), time)

(***************************************************************************)
(* src/src/jsacmi.js: TrackDatabase, and src/src/trackio.js: the loader    *)
(*                                                                         *)
(* db.data is a function from property keys to objects [start, end, vals]. *)
(* A key is the string JavaScript makes of the number used as the index.   *)
(***************************************************************************)

\* The own properties new TrackObject(id, data) has before the call of
\* extractSingletons, lines 12-15: the wrapper is, like an entry, the
\* sequence of its properties in insertion order.
IdName == <<"i", "d">>
DataName == <<"d", "a", "t", "a">>
NewTrackObject(id) ==
    <<[name |-> IdName, val |-> Text(id)], [name |-> DataName, val |-> [k |-> "object"]]>>

\* lines 154-164: the keys of the registry in the order they are added, which
\* is the order "for (let val in registry)" visits them (none of the names
\* read here is an array index)
RECURSIVE EntryNames(_, _)
EntryNames(entry, registry) ==
    IF entry = <<>> THEN registry
    ELSE EntryNames(Tail(entry),
                    IF \E i \in DOMAIN registry : registry[i] = Head(entry).name
                    THEN registry ELSE Append(registry, Head(entry).name))

RECURSIVE Registry(_, _)
Registry(vals, registry) ==
    IF vals = <<>> THEN registry
    ELSE Registry(Tail(vals), EntryNames(Head(vals), registry))

\* registry[val]: the positions of the entries that have the property val
Carriers(vals, val) == {i \in 0 .. Len(vals) - 1 : Has(At(vals, i), val)}

\* this.data.vals[registry[val][0]][val]
FirstCarrier(vals, val) ==
    Get(At(vals, CHOOSE i \in Carriers(vals, val) :
                     \A j \in Carriers(vals, val) : i <= j), val)

\* a faulty variant of ExposeOne, which exposes the name whatever the number
\* of entries that carry it
ExposeAny(vals, val, this) ==
    IF Has(this, val) THEN Put(this, <<"_">> \o val, FirstCarrier(vals, val))
    ELSE Put(this, val, FirstCarrier(vals, val))

\* lines 168-171 for the name val
ExposeOne(vals, val, this) ==
    IF Cardinality(Carriers(vals, val)) # 1 THEN this
    ELSE IF Has(this, val) THEN Put(this, <<"_">> \o val, FirstCarrier(vals, val))
    ELSE Put(this, val, FirstCarrier(vals, val))

\* lines 166-172
RECURSIVE Expose(_, _, _)
Expose(vals, names, this) ==
    IF names = <<>> THEN this
    ELSE Expose(vals, Tail(names), ExposeOne(vals, Head(names), this))

\* extractSingletons, lines 148-173, on the wrapper this of the timeline vals
extractSingletons(vals, this) == Expose(vals, Registry(vals, <<>>), this)

\* new TrackObject(id, data), as the getter objects makes it, lines 189-195
TrackObject(id, obj) ==
    [k |-> "object", this |-> extractSingletons(obj.vals, NewTrackObject(id))]

\* db.data[key] = obj
DbPut(data, key, obj) ==
    [x \in DOMAIN data \cup {key} |-> IF x = key THEN obj ELSE data[x]]

\* new TrackDatabase(), lines 178-187: the global object under key 0
NewDatabase == DbPut(<<>>, NumToString(Num(0)), createObject(Num(0)))

\* The loop over the fields of parseUpdate, lines 213-230, on the entry that
\* was pushed onto the timeline: the entry as the loop leaves it, and the
\* exception that ended the loop, if any ("" for none).  A field without a
\* name and "=" makes data null, and data[1] throws a TypeError.
RECURSIVE ApplyFields(_, _)
\* lines 224-229: a null value is skipped, any other is stored
ApplyValue(timeEntry, name, value, rest) ==
    IF value.k = "null" THEN ApplyFields(timeEntry, rest)
    ELSE ApplyFields(Put(timeEntry, name, value), rest)

\* lines 216-222, m being the match of the field
ApplyMatch(timeEntry, m, rest) ==
    IF m.k = "null" THEN [entry |-> timeEntry, err |-> "TypeError"]
    ELSE ApplyValue(timeEntry, m.name,
                    IF m.name = TName THEN parseObjectCoords(m.value) ELSE Text(m.value),
                    rest)

ApplyFields(timeEntry, fields) ==
    IF fields = <<>> THEN [entry |-> timeEntry, err |-> ""]
    ELSE ApplyMatch(timeEntry, MatchField(Head(fields)), Tail(fields))

\* the key an update record addresses: parseInt(fields[0], 16) as a property key
UpdateKey(str) == NumToString(ParseInt16(tokenizeUpdate(str)[1]))

\* a faulty variant of ensureObject, which creates the object anew at every
\* update record
ensureObjectAnew(data, key, currOffset) == DbPut(data, key, createObject(currOffset))

\* a faulty variant of ensureObject, which creates the object anew when the
\* one the database holds was removed
ensureObjectReopened(data, key, currOffset) ==
    IF key \in DOMAIN data /\ data[key].end = Null THEN data
    ELSE DbPut(data, key, createObject(currOffset))

\* lines 200-207: the object of the key is created at the current offset
\* unless the database holds it
ensureObject(data, key, currOffset) ==
    IF key \in DOMAIN data THEN data ELSE DbPut(data, key, createObject(currOffset))

\* a faulty variant of PushEntry, which pushes the entry only when it retains
\* a field
PushRetained(data, key, r) ==
    IF Len(r.entry) = 1 THEN [data |-> data, err |-> r.err]
    ELSE [data |-> [data EXCEPT ![key] = addEntry(@, r.entry)], err |-> r.err]

\* lines 209-231: the entry is pushed onto the timeline and the fields are
\* stored in it; r is the entry after the loop with the exception, if any
PushEntry(data, key, r) ==
    [data |-> [data EXCEPT ![key] = addEntry(@, r.entry)], err |-> r.err]

\* parseUpdate on the fields of the record and the key they address
UpdateFields(data, currOffset, key, fields) ==
    PushEntry(ensureObject(data, key, currOffset), key,
              ApplyFields(createEntry(currOffset), Tail(fields)))

\* parseUpdate, lines 194-231: the data after the call and the exception
\* that ended it, if any
parseUpdate(data, currOffset, str) ==
    UpdateFields(data, currOffset, UpdateKey(str), tokenizeUpdate(str))

\* a faulty variant of RemoveKey, which does not negate the number parsed
RemoveKeyUnsigned(line) == NumToString(ParseInt16(line))

\* the key a removal record addresses: -parseInt(line, 16) as a property key
RemoveKey(line) == NumToString(NumNeg(ParseInt16(line)))

\* a faulty variant of RemoveObject, which deletes the object from the
\* database
RemoveObjectErased(data, currOffset, key) ==
    IF key \notin DOMAIN data THEN [data |-> data, err |-> "ReferenceError"]
    ELSE [data |-> [x \in DOMAIN data \ {key} |-> data[x]], err |-> ""]

\* lines 236-245.  The message for an unknown object reads the undeclared
\* variable objectId, which throws a ReferenceError before anything is
\* logged.
RemoveObject(data, currOffset, key) ==
    IF key \notin DOMAIN data THEN [data |-> data, err |-> "ReferenceError"]
    ELSE [data |-> [data EXCEPT ![key].end = currOffset], err |-> ""]

\* parseRemove, lines 233-246
parseRemove(data, currOffset, line) == RemoveObject(data, currOffset, RemoveKey(line))

FileTypeHeader ==
    <<"F", "i", "l", "e", "T", "y", "p", "e", "=", "t", "e", "x", "t", "/",
      "a", "c", "m", "i", "/", "t", "a", "c", "v", "i", "e", "w">>
FileVersionPrefix == <<"F", "i", "l", "e", "V", "e", "r", "s", "i", "o", "n">>
FileVersionHeader == FileVersionPrefix \o <<"=", "2", ".", "2">>

\* a faulty variant of LineKind, which takes a line that ends in a backslash
\* for the end of its record
LineKindEager(line, buf) ==
    IF line = <<>> \/ line = FileTypeHeader \/ StartsWith(line, FileVersionPrefix)
    THEN "skip"
    ELSE IF StartsWith(buf, <<"/", "/">>) THEN "comment"
    ELSE IF buf[1] = "#" THEN "frame"
    ELSE IF buf[1] = "-" THEN "remove"
    ELSE IF startsWithObjectId(buf) THEN "update"
    ELSE "other"

\* The branch the loop body of loadACMI takes, lines 263-308, in the order
\* the code tests them: line is the trimmed line, buf the lineBuffer with
\* the line added to it.
LineKind(line, buf) ==
    IF line = <<>> \/ line = FileTypeHeader \/ StartsWith(line, FileVersionPrefix)
    THEN "skip"
    ELSE IF line[Len(line)] = "\\" THEN "continue"
    ELSE IF StartsWith(buf, <<"/", "/">>) THEN "comment"
    ELSE IF buf[1] = "#" THEN "frame"
    ELSE IF buf[1] = "-" THEN "remove"
    ELSE IF startsWithObjectId(buf) THEN "update"
    ELSE "other"

\* the branch taken for the line rawLine when the lineBuffer is lineBuffer
KindOf(lineBuffer, rawLine) == LineKind(Trim(rawLine), lineBuffer \o Trim(rawLine))

\* lines 289-293: the frame marker sets the offset; t is the result of
\* parseTimeOffset
FrameRead(ctx, buf, t) ==
    IF t.k = "throw"
    THEN [data |-> ctx.data, currOffset |-> ctx.currOffset, lineBuffer |-> buf, err |-> t.e]
    ELSE [data |-> ctx.data, currOffset |-> t, lineBuffer |-> <<>>, err |-> ""]

\* lines 295-306: r is the result of parseRemove or parseUpdate
RecordRead(ctx, buf, r) ==
    [data |-> r.data, currOffset |-> ctx.currOffset,
     lineBuffer |-> IF r.err = "" THEN <<>> ELSE buf, err |-> r.err]

\* lines 270-309 for the branch kind.  The two "continue" statements that
\* follow the concatenation leave the lineBuffer as it is.
Branch(ctx, buf, kind) ==
    CASE kind = "skip" ->
           [data |-> ctx.data, currOffset |-> ctx.currOffset,
            lineBuffer |-> ctx.lineBuffer, err |-> ""]
      [] kind \in {"continue", "comment"} ->
           [data |-> ctx.data, currOffset |-> ctx.currOffset,
            lineBuffer |-> buf, err |-> ""]
      [] kind = "frame" -> FrameRead(ctx, buf, parseTimeOffset(buf))
      [] kind = "remove" -> RecordRead(ctx, buf, parseRemove(ctx.data, ctx.currOffset, buf))
      [] kind = "update" -> RecordRead(ctx, buf, parseUpdate(ctx.data, ctx.currOffset, buf))
      [] OTHER ->
           [data |-> ctx.data, currOffset |-> ctx.currOffset,
            lineBuffer |-> <<>>, err |-> ""]

\* One pass of the loop body of loadACMI, lines 263-309, over the context
\* ctx = [data, currOffset, lineBuffer]: the context after the pass and the
\* exception that ended it, if any.
LoopBody(ctx, rawLine) ==
    Branch(ctx, ctx.lineBuffer \o Trim(rawLine), KindOf(ctx.lineBuffer, rawLine))

\* The loop of loadACMI, lines 263-309, over the lines left: r is the
\* context with the exception that ended the loop, if any
RECURSIVE ReadAll(_, _)
ReadAll(r, lines) ==
    IF lines = <<>> \/ r.err # "" THEN r
    ELSE ReadAll(LoopBody(r, Head(lines)), Tail(lines))

\* line 311: the database the promise resolves to, or the exception it is
\* rejected with
Loaded(r) == [data |-> r.data, err |-> r.err]

\* loadACMI, lines 248-312, on a whole file
loadACMI(lines) ==
    Loaded(ReadAll([data |-> NewDatabase, currOffset |-> Num(0), lineBuffer |-> <<>>,
                    err |-> ""], lines))

(***************************************************************************)
(* src/src/trackio.js: saveACMI, lines 314-404                             *)
(***************************************************************************)

IdKey == <<"_", "i", "d">>
RmKey == <<"_", "r", "m">>
EOL == "\n"

IsIndexKey(key) == key # <<>> /\ \A i \in DOMAIN key : key[i] \in Digits

\* The keys in the order of for (let id in db.data): the integer keys in
\* ascending order, then the other keys.
RECURSIVE KeysInOrder(_)
KeysInOrder(keys) ==
    IF keys = {} THEN <<>>
    ELSE LET ints == {x \in keys : IsIndexKey(x)}
             x == IF ints # {}
                  THEN CHOOSE y \in ints :
                           \A z \in ints : DigitsVal(y, 10, 0) <= DigitsVal(z, 10, 0)
                  ELSE CHOOSE y \in keys : TRUE
         IN  <<x>> \o KeysInOrder(keys \ {x})

\* obj.vals.map(e => { e['_id'] = id; return e; }): every entry of the
\* timeline is given the property _id, in place
RECURSIVE TagEntries(_, _)
TagEntries(vals, id) ==
    IF vals = <<>> THEN <<>>
    ELSE <<Put(Head(vals), IdKey, Text(id))>> \o TagEntries(Tail(vals), id)

\* the pseudo-entry of a removal, lines 326-331
RemoveEntry(obj, id) ==
    Put(Put(createEntry(ParseFloat(NumToString(ToNumber(obj.end)))), IdKey, Text(id)),
        RmKey, [k |-> "bool", b |-> TRUE])

\* lines 317-332: the objects after the loop (their entries tagged) and the
\* master list allData
RECURSIVE Collect(_, _, _)
Collect(data, ids, allData) ==
    IF ids = <<>> THEN [data |-> data, allData |-> allData]
    ELSE LET id == Head(ids)
             tagged == TagEntries(data[id].vals, id)
             rm == IF data[id].end.k # "null" THEN <<RemoveEntry(data[id], id)>> ELSE <<>>
         IN  Collect([data EXCEPT ![id].vals = tagged], Tail(ids), allData \o tagged \o rm)

\* a['#'] - b['#'] < 0
TimeBefore(a, b) == NumLT(ToNumber(Get(a, Hash)), ToNumber(Get(b, Hash)))

\* allData.sort((a, b) => a['#'] - b['#']), line 335: Array.prototype.sort is
\* stable, so entries of equal time keep their order
RECURSIVE InsertByTime(_, _)
InsertByTime(sorted, x) ==
    IF sorted = <<>> THEN <<x>>
    ELSE IF TimeBefore(x, sorted[Len(sorted)])
         THEN Append(InsertByTime(SubSeq(sorted, 1, Len(sorted) - 1), x), sorted[Len(sorted)])
    ELSE Append(sorted, x)

RECURSIVE SortByTime(_, _)
SortByTime(sorted, rest) ==
    IF rest = <<>> THEN sorted
    ELSE SortByTime(InsertByTime(sorted, Head(rest)), Tail(rest))

\* v.toString() of a stored value, and the string "+" makes of it
toString(v) ==
    CASE v.k = "text" -> v.s
      [] v.k \in {"num", "nan", "inf"} -> NumToString(v)
      [] v.k = "null" -> <<"n", "u", "l", "l">>
      [] OTHER -> <<>>

\* a != b on numbers and strings
LooseNeq(a, b) ==
    IF a.k = "text" /\ b.k = "text" THEN a.s # b.s
    ELSE ToNumber(a).k = "nan" \/ ToNumber(b).k = "nan" \/ ToNumber(a) # ToNumber(b)

\* lines 380-388: T= and the components between pipes, a null or NaN
\* component as the empty string
RECURSIVE WriteCoords(_, _)
WriteCoords(cs, first) ==
    IF cs = <<>> THEN <<>>
    ELSE (IF first THEN <<"T", "=">> ELSE <<"|">>)
         \o (IF Head(cs).k \in {"null", "nan"} THEN <<>> ELSE NumToString(Head(cs)))
         \o WriteCoords(Tail(cs), FALSE)

\* lines 393-397: the value split at every backslash that no comma follows,
\* the pieces written with a backslash and a line end between them
RECURSIVE WriteValue(_, _)
WriteValue(str, i) ==
    IF i > Len(str) THEN <<>>
    ELSE IF str[i] = "\\" /\ (i = Len(str) \/ str[i + 1] # ",")
         THEN <<"\\", EOL>> \o WriteValue(str, i + 1)
    ELSE <<str[i]>> \o WriteValue(str, i + 1)

\* lines 369-399: the fields of one entry, in the order the properties were
\* added to it
RECURSIVE WriteFields(_)
WriteFields(curr) ==
    IF curr = <<>> THEN <<>>
    ELSE LET name == Head(curr).name
             val  == Head(curr).val
         IN  IF name = Hash \/ name[1] = "_" THEN WriteFields(Tail(curr))
             ELSE <<",">>
                  \o (IF name = TName THEN WriteCoords(val.c, TRUE)
                      ELSE name \o <<"=">> \o WriteValue(toString(val), 1))
                  \o WriteFields(Tail(curr))

\* id.toString(16) of id = parseInt(curr['_id'])
IdString(id) == IF id.k = "nan" THEN NumToString(id) ELSE IntToString(id.n, 16)

IdToString(curr) == IdString(ParseInt10(toString(Get(curr, IdKey))))

\* lines 344-403: the characters written for the master list, currOffset
\* being the running time offset
RECURSIVE WriteAll(_, _)
\* lines 355-402 for the entry curr; mark tells that its time differs from
\* the running offset
WriteEntry(curr, mark, currOffset, rest) ==
    (IF mark THEN <<"#">> \o toString(Get(curr, Hash)) \o <<EOL>> ELSE <<>>)
    \o (IF Has(curr, RmKey) THEN <<"-">> \o IdToString(curr) \o <<EOL>>
        ELSE IdToString(curr) \o WriteFields(curr) \o <<EOL>>)
    \o WriteAll(rest, IF mark THEN Get(curr, Hash) ELSE currOffset)

WriteAll(allData, currOffset) ==
    IF allData = <<>> THEN <<>>
    ELSE WriteEntry(Head(allData), LooseNeq(currOffset, Get(Head(allData), Hash)),
                    currOffset, Tail(allData))

\* the lines of a written file: the text between the line ends
FileLinesOf(chars) ==
    LET pieces == SplitOn(chars, EOL)
    IN  IF pieces[Len(pieces)] = <<>> THEN SubSeq(pieces, 1, Len(pieces) - 1) ELSE pieces

\* lines 335-403: the master list is sorted and written after the header
WriteFile(allData) ==
    FileLinesOf(FileTypeHeader \o <<EOL>> \o FileVersionHeader \o <<EOL>>
                \o WriteAll(SortByTime(<<>>, allData), Num(0)))

\* c holds the objects with their entries tagged and the master list
Saved(c) == [data |-> c.data, lines |-> WriteFile(c.allData)]

\* saveACMI: the database after the call (its entries tagged) and the lines
\* of the file written
saveACMI(data) == Saved(Collect(data, KeysInOrder(DOMAIN data), <<>>))

(***************************************************************************)
(* The lines a track file can hold.  A file is one of a few kinds, and the *)
(* loader reads any sequence of the lines of its kind.                     *)
(***************************************************************************)

\* object 1: a position with altitude 100 and the text N=a
UpdateA == <<"1", ",", "T", "=", "1", "0", "|", "2", "0", "|", "1", "0", "0", ",", "N", "=", "a">>

\* object 1: a position with altitude 200 and the text N=b
UpdateB == <<"1", ",", "T", "=", "1", "0", "|", "2", "0", "|", "2", "0", "0", ",", "N", "=", "b">>

\* object 1: a bare id, no field
UpdateBare == <<"1">>

\* object 1: a position of two components, which is rejected
UpdateArity == <<"1", ",", "T", "=", "1", "|", "2">>

\* the global object
UpdateGlobal == <<"0", ",", "N", "=", "s">>

\* object 0xa: a text and a property whose name begins with _
UpdateHex == <<"a", ",", "N", "=", "b", ",", "_", "x", "=", "5">>

\* the removal of object 0xa
RemoveHex == <<"-", "a">>

\* frame markers
Frame10 == <<"#", "1", "0">>
Frame30 == <<"#", "3", "0", ".", "0">>

\* a line of white space
BlankLine == <<" ">>

\* a comment
CommentLine == <<"/", "/", "c">>

\* object 1: a text whose value goes on in the next line
ContinuedLine == <<"1", ",", "N", "=", "x", "\\">>

\* the rest of the value
RestLine == <<"y", "z">>

\* object 1: a field whose name is that of the time offset
UpdateTimed == <<"1", ",", "#", "=", "9">>

\* object 1: a field without a name and "="
UpdateMalformed == <<"1", ",", "b", "a", "d">>

\* object 1: a text and a position of two components
UpdateMixed == <<"1", ",", "N", "=", "c", ",", "T", "=", "1", "|", "2">>

\* object 1: a field named as a property every TrackObject has
UpdateNamed == <<"1", ",", "i", "d", "=", "7">>

\* object 1: an empty segment, a text with an escaped comma and a second text
UpdateEscaped == <<"1", ",", ",", "N", "=", "a", "\\", ",", "b", ",", "M", "=", "c">>

\* object 1: a position whose altitude is left empty
UpdateAbsent == <<"1", ",", "T", "=", "1", "0", "|", "2", "0", "|">>

\* object 1: a field named as the mark saveACMI gives a removal
UpdateFlagged == <<"1", ",", "_", "r", "m", "=", "1">>

\* object 1: a field without "=" between two texts
UpdateBroken == <<"1", ",", "N", "=", "d", ",", "b", "a", "d", ",", "M", "=", "e">>

\* frame markers that are not a number, or not a number only
FrameWord == <<"#", "a", "b", "c">>
FrameSuffixed == <<"#", "5", "x">>

\* the frame marker of the time t
FrameLine(t) == <<"#">> \o NumToString(Num(t))

\* a recording: the frames of one object in the order of their times, each
\* a frame marker (when the time advances) and an update record
RecordingFile == "recording.acmi"
\* a session file: several objects, created, updated and removed, the lines
\* in any order
SessionFile == "session.acmi"

\* a file with notes: the header, blank lines, comments and a value written
\* on two lines
NotesFile == "notes.acmi"

\* a file edited by hand: fields and frame markers no writer produces
EditedFile == "edited.acmi"

TrackFiles == {RecordingFile, SessionFile, NotesFile, EditedFile}

\* the lines a file of each kind can hold
LinesOf(file) ==
    IF file = SessionFile
    THEN {UpdateA, UpdateArity, UpdateGlobal, UpdateHex, RemoveHex, Frame10, Frame30}
    ELSE IF file = NotesFile
    THEN {BlankLine, FileTypeHeader, FileVersionHeader, CommentLine, ContinuedLine,
          RestLine, UpdateA, UpdateTimed, UpdateMalformed, UpdateMixed,
          UpdateEscaped, UpdateNamed}
    ELSE IF file = EditedFile
    THEN {UpdateA, Frame10, UpdateAbsent, UpdateFlagged, UpdateBroken, FrameWord,
          FrameSuffixed}
    ELSE {}

\* the frame times and the update records of a recording
RecordTimes == {0, 5, 10, 15}
RecordLines == {UpdateA, UpdateB, UpdateBare}

\* the number of frames read from a recording, of lines read from a session,
\* from a file with notes and from an edited file
MaxRecords == 4
MaxSessionLines == 4
MaxNotesLines == 3
MaxEditedLines == 3

MaxLines(file) ==
    IF file = RecordingFile THEN MaxRecords
    ELSE IF file = SessionFile THEN MaxSessionLines
    ELSE IF file = NotesFile THEN MaxNotesLines
    ELSE MaxEditedLines

\* the times, the text attribute and the coordinate (C_ALT, the altitude) a
\* client asks for
QueryTimes == {-1, 0, 2, 5, 7, 10, 12, 15, 20}
QueryName == <<"N">>
C_ALT == 2

(***************************************************************************)
(* The state machine                                                       *)
(***************************************************************************)

VARIABLES
    trackFile,   \* the file loadACMI reads
    nread,       \* the number of lines read from it
    data,        \* context.db.data
    currOffset,  \* context.currOffset
    lineBuffer,  \* the lineBuffer of loadACMI
    ordered,     \* history: the frame offsets read so far never decreased
    pc,          \* "reading", "loaded" (the database was returned), "failed"
    error,       \* the exception loadACMI was rejected with, "" for none
    outFile,     \* the lines saveACMI wrote, <<>> before it is called
    answers      \* the results of the client's queries, by query

vars == <<trackFile, nread, data, currOffset, lineBuffer, ordered, pc, error,
          outFile, answers>>

NoAnswers == [p \in {} |-> Null]

Init ==
    /\ trackFile \in TrackFiles
    /\ nread = 0
    /\ data = NewDatabase
    /\ currOffset = Num(0)
    /\ lineBuffer = <<>>
    /\ ordered = TRUE
    /\ pc = "reading"
    /\ error = ""
    /\ outFile = <<>>
    /\ answers = NoAnswers

Context ==
    [data |-> data, currOffset |-> currOffset, lineBuffer |-> lineBuffer, err |-> ""]

\* the outcome r of a pass of the loop body becomes the state of the loader;
\* an exception rejects the promise of loadACMI and ends the load
Advance(r) ==
    /\ data' = r.data
    /\ currOffset' = r.currOffset
    /\ lineBuffer' = r.lineBuffer
    /\ error' = r.err
    /\ pc' = IF r.err = "" THEN "reading" ELSE "failed"
    /\ ordered' = (ordered /\ NumLE(currOffset, r.currOffset))

\* the loader reads one more line: one pass of the loop body
ReadLine(line) ==
    /\ pc = "reading"
    /\ nread < MaxLines(trackFile)
    /\ Advance(LoopBody(Context, line))
    /\ nread' = nread + 1
    /\ UNCHANGED <<trackFile, outFile, answers>>

\* lines 270-275: an empty line or a header line
SkipLine ==
    \E line \in LinesOf(trackFile) : KindOf(lineBuffer, line) = "skip" /\ ReadLine(line)

\* lines 277-283: a line ending in a backslash
ContinueLine ==
    \E line \in LinesOf(trackFile) : KindOf(lineBuffer, line) = "continue" /\ ReadLine(line)

\* line 286: a comment
Comment ==
    \E line \in LinesOf(trackFile) : KindOf(lineBuffer, line) = "comment" /\ ReadLine(line)

\* lines 289-293: a frame marker
Frame ==
    \E line \in LinesOf(trackFile) : KindOf(lineBuffer, line) = "frame" /\ ReadLine(line)

\* lines 295-299: a removal record
Remove ==
    \E line \in LinesOf(trackFile) : KindOf(lineBuffer, line) = "remove" /\ ReadLine(line)

\* lines 301-305: an update record
Update ==
    \E line \in LinesOf(trackFile) : KindOf(lineBuffer, line) = "update" /\ ReadLine(line)

\* line 308: any other record is dropped
Other ==
    \E line \in LinesOf(trackFile) : KindOf(lineBuffer, line) = "other" /\ ReadLine(line)

\* lines 263-309 on one frame of a recording: the marker of the time t, when
\* t is later than the current offset, and an update record
Record ==
    /\ pc = "reading"
    /\ trackFile = RecordingFile
    /\ nread < MaxLines(trackFile)
    /\ \E t \in RecordTimes, line \in RecordLines :
           /\ NumLE(currOffset, Num(t))
           /\ Advance(ReadAll(Context, IF currOffset = Num(t) THEN <<line>>
                                        ELSE <<FrameLine(t), line>>))
    /\ nread' = nread + 1
    /\ UNCHANGED <<trackFile, outFile, answers>>

\* line 311: the file ends, and loadACMI returns the database
EndOfFile ==
    /\ pc = "reading"
    /\ pc' = "loaded"
    /\ lineBuffer' = <<>>
    /\ UNCHANGED <<trackFile, nread, data, currOffset, ordered, error, outFile, answers>>

\* the database and the file saveACMI leaves
Written(r) == data' = r.data /\ outFile' = r.lines

\* saveACMI(outFile, db) on the database loadACMI returned
Save ==
    /\ pc = "loaded"
    /\ Written(saveACMI(data))
    /\ UNCHANGED <<trackFile, nread, currOffset, lineBuffer, ordered, pc, error, answers>>

\* the queries of a client on the objects of the database
Queries ==
    ({"index", "number", "value", "coord"} \X (DOMAIN data) \X QueryTimes)
        \cup ({"object"} \X (DOMAIN data) \X {0})

Ask(q) ==
    CASE q[1] = "index"  -> findTimeIndex(data[q[2]].vals, Num(q[3]))
      [] q[1] = "number" -> getNumberAtTime(data[q[2]].vals, QueryName, Num(q[3]))
      [] q[1] = "value"  -> getValueAtTime(data[q[2]].vals, QueryName, Num(q[3]))
      [] q[1] = "coord"  -> getCoordAtTime(data[q[2]].vals, C_ALT, Num(q[3]))
      [] q[1] = "object" -> TrackObject(q[2], data[q[2]])

\* a client asks every query of the database loadACMI returned; a query that
\* throws does not stop the others
Query ==
    /\ pc = "loaded"
    /\ answers = NoAnswers
    /\ answers' = [q \in Queries |-> Ask(q)]
    /\ UNCHANGED <<trackFile, nread, data, currOffset, lineBuffer, ordered, pc, error,
                   outFile>>

Next ==
    \/ SkipLine
    \/ ContinueLine
    \/ Comment
    \/ Other
    \/ Frame
    \/ Remove
    \/ Update
    \/ Record
    \/ EndOfFile
    \/ Save
    \/ Query

Spec == Init /\ [][Next]_vars

(***************************************************************************)
(* Properties                                                              *)
(***************************************************************************)

\* the client has asked its queries
Asked == answers # NoAnswers

\* the timeline of the object under the key k
ValsOf(k) == data[k].vals

\* the positions of a timeline, counted from 0 as the code counts them
Positions(vals) == 0 .. Len(vals) - 1

\* the times of the timeline increase strictly
Increasing(vals) ==
    \A i \in Positions(vals) :
        i + 1 < Len(vals) => NumLT(TimeAt(vals, i), TimeAt(vals, i + 1))

\* the name/value pairs of an entry
Pairs(e) == {e[i] : i \in DOMAIN e}

\* two objects with the same start, the same end and the same entries
SameObject(a, b) ==
    /\ a.start = b.start
    /\ a.end = b.end
    /\ Len(a.vals) = Len(b.vals)
    /\ \A i \in DOMAIN a.vals : Pairs(a.vals[i]) = Pairs(b.vals[i])

\* r, the outcome of a load, is a database with the objects of db
SameDatabase(r, db) ==
    /\ r.err = ""
    /\ DOMAIN r.data = DOMAIN db
    /\ \A k \in DOMAIN db : SameObject(r.data[k], db[k])

\* C1: Round trip.  For every database loadACMI built from a stream whose
\* frame offsets never decrease, loading the lines saveACMI writes for it
\* gives a database with the same ids and, for every object, the same start,
\* the same end and the same entries.
C1_RoundTrip ==
    (pc = "loaded" /\ ordered /\ outFile = <<>>)
        => SameDatabase(loadACMI(saveACMI(data).lines), data)

\* the entry at position i carries the altitude
CarriesAlt(vals, i) == Comp(ByCoord(C_ALT), At(vals, i))

\* the altitude of the entry at position i
AltAt(vals, i) == Retrieve(ByCoord(C_ALT), At(vals, i))

\* the entries at i and j bracket the time T: both carry the altitude, no
\* entry between them does, and T lies strictly between their times
Brackets(vals, i, j, T) ==
    /\ i < j
    /\ CarriesAlt(vals, i)
    /\ CarriesAlt(vals, j)
    /\ \A m \in Positions(vals) : (i < m /\ m < j) => ~CarriesAlt(vals, m)
    /\ NumLT(TimeAt(vals, i), Num(T))
    /\ NumLT(Num(T), TimeAt(vals, j))

\* prev.value + (next.value - prev.value) * (T - prev.time) / (next.time - prev.time)
Blend(pv, nv, pt, nt, T) ==
    NumAdd(pv, NumDiv(NumMul(NumSub(nv, pv), NumSub(Num(T), pt)), NumSub(nt, pt)))

\* C2: Linear interpolation between bracketing entries.  For every object
\* and every time T strictly between the times of two entries that carry the
\* altitude, with no carrying entry between them, getCoordAtTime returns
\* prev.value + (next.value - prev.value) * (T - prev.time) / (next.time -
\* prev.time), also when prev is the first entry of the timeline.
C2_Interpolation ==
    (Asked /\ ordered) =>
        \A k \in DOMAIN data, T \in QueryTimes :
            \A i, j \in Positions(ValsOf(k)) :
                Brackets(ValsOf(k), i, j, T) =>
                    answers[<<"coord", k, T>>] =
                        Blend(AltAt(ValsOf(k), i), AltAt(ValsOf(k), j),
                              TimeAt(ValsOf(k), i), TimeAt(ValsOf(k), j), T)

\* the index r is the one findTimeIndex is to return for the time T
IndexFits(vals, T, r) ==
    /\ r.k = "num"
    /\ r.d = 1
    /\ r.n \in Positions(vals)
    /\ NumLE(Num(T), TimeAt(vals, 0)) => r.n = 0
    /\ NumLE(TimeAt(vals, Len(vals) - 1), Num(T)) => r.n = Len(vals) - 1
    /\ (NumLT(TimeAt(vals, 0), Num(T)) /\ NumLT(Num(T), TimeAt(vals, Len(vals) - 1))) =>
           /\ NumLE(TimeAt(vals, r.n), Num(T))
           /\ NumLE(Num(T), TimeAt(vals, r.n + 1))

\* C3: Binary-search correctness.  For every object whose timeline times are
\* t0 < t1 < ... < tn and every time T, findTimeIndex(T) is 0 when T <= t0,
\* n when T >= tn, and otherwise an index i with t_i <= T <= t_(i+1).
C3_BinarySearch ==
    Asked =>
        \A k \in DOMAIN data, T \in QueryTimes :
            (ValsOf(k) # <<>> /\ Increasing(ValsOf(k))) =>
                IndexFits(ValsOf(k), T, answers[<<"index", k, T>>])

\* C3: the search went right and then found the interval: four entries at
\* increasing times, and a time between the last two
C3_Witness ==
    /\ Asked
    /\ \E k \in DOMAIN data :
           /\ Len(ValsOf(k)) = 4
           /\ Increasing(ValsOf(k))
           /\ answers[<<"index", k, 12>>] = Num(2)
           /\ answers[<<"index", k, 2>>] = Num(0)

\* C4: Interpolation boundary.  For every timeline ingestion can produce
\* (time offsets never decrease) and every entry i that carries the altitude,
\* getCoordAtTime at exactly T = t_i returns a value that a carrying entry
\* with the time t_i holds, never an interpolated, undefined or not-a-number
\* result.
C4_Boundary ==
    (Asked /\ ordered) =>
        \A k \in DOMAIN data, T \in QueryTimes :
            \A i \in Positions(ValsOf(k)) :
                (CarriesAlt(ValsOf(k), i) /\ TimeAt(ValsOf(k), i) = Num(T)) =>
                    \E j \in Positions(ValsOf(k)) :
                        /\ CarriesAlt(ValsOf(k), j)
                        /\ TimeAt(ValsOf(k), j) = Num(T)
                        /\ answers[<<"coord", k, T>>] = AltAt(ValsOf(k), j)

\* the entry at position i carries the text attribute at or before the time T
CarriesBy(vals, i, T) ==
    Comp(ByName(QueryName), At(vals, i)) /\ NumLE(TimeAt(vals, i), Num(T))

\* the entry at position j is a latest one to carry the text attribute at or
\* before the time T
LatestBy(vals, j, T) ==
    /\ CarriesBy(vals, j, T)
    /\ \A m \in Positions(vals) :
           CarriesBy(vals, m, T) => NumLE(TimeAt(vals, m), TimeAt(vals, j))

\* C5: Zero-order hold for text.  For every object and time T such that an
\* entry with time <= T carries the attribute, getValueAtTime returns the
\* value of the latest carrying entry whose time is <= T, an entry at exactly
\* T included.
C5_StepHold ==
    (Asked /\ ordered) =>
        \A k \in DOMAIN data, T \in QueryTimes :
            (\E i \in Positions(ValsOf(k)) : CarriesBy(ValsOf(k), i, T)) =>
                \E j \in Positions(ValsOf(k)) :
                    /\ LatestBy(ValsOf(k), j, T)
                    /\ answers[<<"value", k, T>>] = Get(At(ValsOf(k), j), QueryName)

\* a result that tells the caller there is no data: no exception, and not
\* the number 0
NoData(r) == r.k # "throw" /\ r # Num(0)

\* C6: A query with no data returns a distinguishable no-data result.  For
\* every object, the one with an empty timeline included, and every attribute
\* no entry of it carries, the numeric, coordinate and text queries neither
\* raise an exception nor return the number 0.
C6_NoData ==
    Asked =>
        \A k \in DOMAIN data, T \in QueryTimes :
            /\ (\A i \in Positions(ValsOf(k)) : ~Comp(ByName(QueryName), At(ValsOf(k), i)))
                   => /\ NoData(answers[<<"number", k, T>>])
                      /\ NoData(answers[<<"value", k, T>>])
            /\ (\A i \in Positions(ValsOf(k)) : ~CarriesAlt(ValsOf(k), i))
                   => NoData(answers[<<"coord", k, T>>])

\* the lineBuffer once the line is added to it
BufOf(line) == lineBuffer \o Trim(line)

\* the loader reads the line as a record of the branch kind
Reads(kind, line) == KindOf(lineBuffer, line) = kind /\ ReadLine(line)

\* C7: Removal of an unknown id is non-fatal.  When a removal record names
\* an id that is not in the database, the database is unchanged and the
\* ingestion continues with the records that follow.
C7_UnknownRemoval ==
    [][\A line \in LinesOf(trackFile) :
           (Reads("remove", line) /\ RemoveKey(BufOf(line)) \notin DOMAIN data)
               => (data' = data /\ pc' = "reading" /\ error' = "")]_vars

\* the key the update records '<hexId>,...' address, for the removal record
\* '-<hexId>'
StorageKey(buf) == UpdateKey(Tail(buf))

\* C8: Removal of an existing object.  A removal record '-<hexId>' read
\* while the frame offset is t sets end = t on exactly the object the update
\* records '<hexId>,...' address, and leaves its start, its timeline and
\* every other object unchanged.
C8_Removal ==
    [][\A line \in LinesOf(trackFile) :
           (Reads("remove", line) /\ StorageKey(BufOf(line)) \in DOMAIN data)
               => data' = [data EXCEPT ![StorageKey(BufOf(line))].end = currOffset]]_vars

\* C8: object a was removed at the offset 30 while object 1 lives on
C8_Witness ==
    /\ pc = "reading"
    /\ UpdateKey(UpdateHex) \in DOMAIN data
    /\ data[UpdateKey(UpdateHex)].end = Num(30)
    /\ data[UpdateKey(UpdateHex)].vals # <<>>
    /\ UpdateKey(UpdateA) \in DOMAIN data
    /\ data[UpdateKey(UpdateA)].end = Null

\* the step adds one entry to the timeline under the key, and none to another
Appended(key) ==
    /\ DOMAIN data' = DOMAIN data \cup {key}
    /\ Len(data'[key].vals) = (IF key \in DOMAIN data THEN Len(data[key].vals) ELSE 0) + 1
    /\ \A k \in DOMAIN data \ {key} : Len(data'[k].vals) = Len(data[k].vals)

\* C9: Every update record appends exactly one entry to the timeline of its
\* object, also when several update records of the object come under one
\* frame offset and when the record retains no field.
C9_OneEntry ==
    [][/\ \A line \in LinesOf(trackFile) :
              Reads("update", line) => Appended(UpdateKey(BufOf(line)))
       /\ Record => Appended(UpdateKey(UpdateBare))]_vars

\* C9: two entries of one object under the same frame offset, the second
\* with no field retained
C9_Witness ==
    \E k \in DOMAIN data :
        \E i \in Positions(ValsOf(k)) :
            /\ i + 1 < Len(ValsOf(k))
            /\ TimeAt(ValsOf(k), i) = TimeAt(ValsOf(k), i + 1)
            /\ Len(At(ValsOf(k), i)) > 1
            /\ Len(At(ValsOf(k), i + 1)) = 1

\* the step keeps the start and the entries of the object under the key
Kept(key) ==
    /\ data'[key].start = data[key].start
    /\ Len(data'[key].vals) >= Len(data[key].vals)
    /\ SubSeq(data'[key].vals, 1, Len(data[key].vals)) = data[key].vals

\* no update record has named the key so far
Unnamed(key) == key \notin DOMAIN data \/ data[key].vals = <<>>

\* C10: ensureObject is idempotent for existing objects.  An update record
\* for an id in the database never changes the start of the object and never
\* removes or replaces an entry of its timeline; start is the frame offset in
\* effect at the first update record that named the id.
C10_EnsureObject ==
    [][\A line \in LinesOf(trackFile) :
           Reads("update", line) =>
               /\ UpdateKey(BufOf(line)) \in DOMAIN data => Kept(UpdateKey(BufOf(line)))
               /\ Unnamed(UpdateKey(BufOf(line)))
                      => data'[UpdateKey(BufOf(line))].start = currOffset]_vars

\* the key of the global object, which new TrackDatabase() creates
GlobalKey == NumToString(Num(0))

\* C10, amended: an update record for an id in the database never changes
\* the start of the object and never removes or replaces an entry of its
\* timeline; start is the frame offset in effect at the first update record
\* that named the id, except for the global object (id 0), which the
\* database holds from its construction and whose start is 0.
C10_EnsureObjectAmended ==
    [][/\ \A line \in LinesOf(trackFile) :
              Reads("update", line) =>
                  /\ UpdateKey(BufOf(line)) \in DOMAIN data => Kept(UpdateKey(BufOf(line)))
                  /\ Unnamed(UpdateKey(BufOf(line)))
                         => data'[UpdateKey(BufOf(line))].start =
                                IF UpdateKey(BufOf(line)) = GlobalKey THEN Num(0)
                                ELSE currOffset
       /\ (Record /\ UpdateKey(UpdateBare) \in DOMAIN data) => Kept(UpdateKey(UpdateBare))]_vars

\* C10: object 1 was first named at the offset 10 and named again at 30
C10_Witness ==
    /\ UpdateKey(UpdateA) \in DOMAIN data
    /\ data[UpdateKey(UpdateA)].start = Num(10)
    /\ Len(data[UpdateKey(UpdateA)].vals) = 2
    /\ TimeAt(data[UpdateKey(UpdateA)].vals, 0) = Num(10)
    /\ TimeAt(data[UpdateKey(UpdateA)].vals, 1) = Num(30)

\* C11: The database always holds the global object of id 0 and never loses
\* an object.  In every state reached from new TrackDatabase() by reading
\* records (updates, removals, frame markers, malformed and unknown lines),
\* key 0 is present, and the keys stored after each step include the keys
\* stored before it.
C11_NeverLoses ==
    /\ GlobalKey \in DOMAIN data
    /\ [][DOMAIN data \subseteq DOMAIN data' /\ GlobalKey \in DOMAIN data']_vars

\* C11: object a was updated twice and removed at the offset 10, and the
\* loaded database holds it with the global object
C11_Witness ==
    /\ pc = "loaded"
    /\ GlobalKey \in DOMAIN data
    /\ UpdateKey(UpdateHex) \in DOMAIN data
    /\ data[UpdateKey(UpdateHex)].end = Num(10)
    /\ Len(data[UpdateKey(UpdateHex)].vals) = 2

\* the times of the timeline never decrease
NonDecreasing(vals) ==
    \A i \in Positions(vals) :
        i + 1 < Len(vals) => NumLE(TimeAt(vals, i), TimeAt(vals, i + 1))

\* C12: Timeline order.  If the offsets of the frame markers read so far
\* never decreased, then after every record the entries of each object's
\* timeline are in non-decreasing order of time (what findTimeIndex relies
\* on).
C12_TimelineOrder ==
    ordered => \A k \in DOMAIN data : NonDecreasing(ValsOf(k))

\* the entry the step appended to the timeline under the key
LastEntry(key) == data'[key].vals[Len(data'[key].vals)]

\* C13: The frame marker fixes the time of the records that follow it.  The
\* entry an update record appends has as its time the offset of the latest
\* frame marker read before the record (0 if there is none), a removal sets
\* end to that offset, and no field of the record, whatever its name ('#' and
\* names beginning with '_' included), changes the time of the entry.
C13_FrameTime ==
    [][/\ \A line \in LinesOf(trackFile) :
              /\ Reads("update", line)
                     => Get(LastEntry(UpdateKey(BufOf(line))), Hash) = currOffset
              /\ (Reads("remove", line) /\ StorageKey(BufOf(line)) \in DOMAIN data)
                     => data'[StorageKey(BufOf(line))].end = currOffset
       /\ Record => Get(LastEntry(UpdateKey(UpdateBare)), Hash) = currOffset']_vars

\* C14: The accumulation state resets after every record, emitted or
\* dropped.  After a comment record (one beginning with '//') is dropped the
\* lineBuffer is empty, so the frame markers, updates and removals that
\* follow are classified and applied as if the comment were not in the file:
\* the step changes nothing else, and an update record read next is taken as
\* an update.
C14_CommentResets ==
    [][Comment =>
           /\ lineBuffer' = <<>>
           /\ UNCHANGED <<data, currOffset, pc, error>>
           /\ KindOf(lineBuffer', UpdateA) = "update"
           /\ KindOf(lineBuffer', Frame10) = "frame"
           /\ KindOf(lineBuffer', RemoveHex) = "remove"]_vars

\* the characters of a string
Chars(str) == {str[i] : i \in DOMAIN str}

\* C15: Continuation joining.  When lines end in the continuation marker '\'
\* and the last does not, the logical record is the concatenation of the
\* lines, each without its trailing marker: the marker appears neither in
\* the lineBuffer nor in a stored attribute value.  (No line of the model has
\* a backslash other than the trailing marker.)
C15_Joining ==
    /\ "\\" \notin Chars(lineBuffer)
    /\ \A k \in DOMAIN data :
           \A i \in Positions(ValsOf(k)) :
               \A p \in Pairs(At(ValsOf(k), i)) :
                   p.val.k = "text" => "\\" \notin Chars(p.val.s)

\* some entry of the timeline carries the attribute of the query q
Carried(vals, q) == \E i \in Positions(vals) : Comp(q, At(vals, i))

\* the value of the first, and of the last, entry that carries the attribute
FirstCarried(vals, q) ==
    Retrieve(q, At(vals, CHOOSE i \in Positions(vals) :
                             /\ Comp(q, At(vals, i))
                             /\ \A j \in 0 .. i - 1 : ~Comp(q, At(vals, j))))
LastCarried(vals, q) ==
    Retrieve(q, At(vals, CHOOSE i \in Positions(vals) :
                             /\ Comp(q, At(vals, i))
                             /\ \A j \in i + 1 .. Len(vals) - 1 : ~Comp(q, At(vals, j))))

\* the numeric query by name and the coordinate query, each with the
\* attribute it looks for
NumericQueries == {<<"number", ByName(QueryName)>>, <<"coord", ByCoord(C_ALT)>>}

\* C16: Flat extrapolation at the boundaries.  For every object with an
\* entry that carries the attribute, a numeric or coordinate query at a time
\* T <= the time of the first entry returns the value of the first carrying
\* entry, and a query at T >= the time of the last entry returns the value of
\* the last carrying entry, not interpolated.
C16_FlatExtrapolation ==
    Asked =>
        \A k \in DOMAIN data, T \in QueryTimes, nq \in NumericQueries :
            Carried(ValsOf(k), nq[2]) =>
                /\ NumLE(Num(T), TimeAt(ValsOf(k), 0))
                       => answers[<<nq[1], k, T>>] = FirstCarried(ValsOf(k), nq[2])
                /\ NumLE(TimeAt(ValsOf(k), Len(ValsOf(k)) - 1), Num(T))
                       => answers[<<nq[1], k, T>>] = LastCarried(ValsOf(k), nq[2])

\* C16, amended: a query at T <= the time of the first entry returns the
\* value of the first carrying entry; a query at T >= the time of the last
\* entry returns the value of the last carrying entry when T is also past the
\* time of the first entry.  At a time that is both the first and the last
\* entry's, the first carrying entry's value is returned.
C16_FlatExtrapolationAmended ==
    Asked =>
        \A k \in DOMAIN data, T \in QueryTimes, nq \in NumericQueries :
            Carried(ValsOf(k), nq[2]) =>
                /\ NumLE(Num(T), TimeAt(ValsOf(k), 0))
                       => answers[<<nq[1], k, T>>] = FirstCarried(ValsOf(k), nq[2])
                /\ (/\ NumLT(TimeAt(ValsOf(k), 0), Num(T))
                    /\ NumLE(TimeAt(ValsOf(k), Len(ValsOf(k)) - 1), Num(T)))
                       => answers[<<nq[1], k, T>>] = LastCarried(ValsOf(k), nq[2])

\* C16: the timeline of object 1 has entries at 0, 5, 10 and 15, of which
\* those at 5 and 10 carry the altitudes 100 and 200; the queries at -1 and
\* at 20 return 100 and 200
C16_Witness ==
    /\ Asked
    /\ UpdateKey(UpdateA) \in DOMAIN data
    /\ Len(ValsOf(UpdateKey(UpdateA))) = 4
    /\ Increasing(ValsOf(UpdateKey(UpdateA)))
    /\ ~CarriesAlt(ValsOf(UpdateKey(UpdateA)), 0)
    /\ ~CarriesAlt(ValsOf(UpdateKey(UpdateA)), 3)
    /\ answers[<<"coord", UpdateKey(UpdateA), -1>>] = Num(100)
    /\ answers[<<"coord", UpdateKey(UpdateA), 20>>] = Num(200)

\* the entry at position i is the first of the timeline to carry the text
\* attribute
FirstByName(vals, i) ==
    /\ Comp(ByName(QueryName), At(vals, i))
    /\ \A j \in 0 .. i - 1 : ~Comp(ByName(QueryName), At(vals, j))

\* C17: Text query before the first carrying entry.  For every object with
\* an entry that carries the attribute and every time T before the time of
\* the first carrying entry (before the first entry of the timeline, or
\* between later entries that do not carry the attribute), getValueAtTime
\* returns the value of the first carrying entry and does not fail.
C17_BeforeFirst ==
    (Asked /\ ordered) =>
        \A k \in DOMAIN data, T \in QueryTimes :
            \A i \in Positions(ValsOf(k)) :
                (FirstByName(ValsOf(k), i) /\ NumLT(Num(T), TimeAt(ValsOf(k), i)))
                    => answers[<<"value", k, T>>] = Get(At(ValsOf(k), i), QueryName)

\* C18: The serializer is a pure read pass.  After saveACMI(db) returns the
\* database is unchanged: every object has the start, the end and the
\* timeline it had, and every entry has the attribute names and values it
\* had before the call (no bookkeeping field such as '_id' is added).
C18_SavePure ==
    [][Save => data' = data]_vars

\* the fields of the update record the line completes, after the id
FieldsOf(line) == Tail(tokenizeUpdate(BufOf(line)))

\* every field of the record has a name and a value
WellFormed(fields) == \A i \in DOMAIN fields : MatchField(fields[i]) # Null

\* the field is a 'T' whose value has a number of components other than 3,
\* 5 or 9
UnknownArity(field) ==
    /\ MatchField(field).name = TName
    /\ Len(SplitOn(MatchField(field).value, "|")) \notin {3, 5, 9}

\* the record has a field 'T', and each 'T' of it has an unknown arity
RejectedT(fields) ==
    /\ \E i \in DOMAIN fields : MatchField(fields[i]).name = TName
    /\ \A i \in DOMAIN fields :
           MatchField(fields[i]).name = TName => UnknownArity(fields[i])

\* no later field of the record has the name of the field at position i
LastOfName(fields, i) ==
    \A j \in DOMAIN fields :
        j > i => MatchField(fields[j]).name # MatchField(fields[i]).name

\* C19: Unknown coordinate arity.  When an update record, its fields well
\* formed, has a field 'T' whose value has a number of components other than
\* 3, 5 or 9, one entry is appended, the entry carries no 'T', and every
\* other field of the record is stored in it (of two fields with one name,
\* the later).
C19_UnknownArity ==
    [][\A line \in LinesOf(trackFile) :
           (/\ Reads("update", line)
            /\ WellFormed(FieldsOf(line))
            /\ RejectedT(FieldsOf(line)))
               => /\ Appended(UpdateKey(BufOf(line)))
                  /\ ~Has(LastEntry(UpdateKey(BufOf(line))), TName)
                  /\ \A i \in DOMAIN FieldsOf(line) :
                         (/\ MatchField(FieldsOf(line)[i]).name # TName
                          /\ LastOfName(FieldsOf(line), i))
                             => Get(LastEntry(UpdateKey(BufOf(line))),
                                    MatchField(FieldsOf(line)[i]).name)
                                    = Text(MatchField(FieldsOf(line)[i]).value)]_vars

\* C19: the record `1,N=c,T=1|2` was read: the entry it appended to the
\* timeline of object 1 holds its time and N = c, and no 'T'
C19_Witness ==
    /\ UpdateKey(UpdateMixed) \in DOMAIN data
    /\ \E i \in Positions(ValsOf(UpdateKey(UpdateMixed))) :
           /\ Len(At(ValsOf(UpdateKey(UpdateMixed)), i)) = 2
           /\ Get(At(ValsOf(UpdateKey(UpdateMixed)), i), QueryName) = Text(<<"c">>)
           /\ ~Has(At(ValsOf(UpdateKey(UpdateMixed)), i), TName)

\* C20: An update to an object after its removal does not reopen or reset
\* it.  When an update record names an id whose end is set, after the update
\* end has the value the removal set, start and the earlier entries are
\* unchanged, and the new entry is appended to the same timeline.
C20_NoReopen ==
    [][\A line \in LinesOf(trackFile) :
           (/\ Reads("update", line)
            /\ UpdateKey(BufOf(line)) \in DOMAIN data
            /\ data[UpdateKey(BufOf(line))].end # Null)
               => /\ data'[UpdateKey(BufOf(line))].end = data[UpdateKey(BufOf(line))].end
                  /\ Kept(UpdateKey(BufOf(line)))
                  /\ Len(data'[UpdateKey(BufOf(line))].vals)
                         = Len(data[UpdateKey(BufOf(line))].vals) + 1]_vars

\* C20: object a was updated and removed at the offset 0 and updated again
\* at the offset 10
C20_Witness ==
    /\ UpdateKey(UpdateHex) \in DOMAIN data
    /\ data[UpdateKey(UpdateHex)].start = Num(0)
    /\ data[UpdateKey(UpdateHex)].end = Num(0)
    /\ Len(ValsOf(UpdateKey(UpdateHex))) = 2
    /\ TimeAt(ValsOf(UpdateKey(UpdateHex)), 0) = Num(0)
    /\ TimeAt(ValsOf(UpdateKey(UpdateHex)), 1) = Num(10)

\* the positions of the commas of a record that no backslash precedes, with
\* the position before its first and the one after its last character
Bounds(str) ==
    {0, Len(str) + 1}
        \cup {i \in DOMAIN str : str[i] = "," /\ (i = 1 \/ str[i - 1] # "\\")}

\* the non-empty segments between unescaped commas, each with the position of
\* the bound before it
Segments(str) ==
    {sg \in {<<a, SubSeq(str, a + 1, (CHOOSE b \in Bounds(str) :
                                          /\ b > a
                                          /\ \A c \in Bounds(str) : c > a => b <= c) - 1)>> :
                 a \in Bounds(str) \ {Len(str) + 1}} : sg[2] # <<>>}

\* the segments after the id, which is the first of them
FieldSegments(str) ==
    {sg \in Segments(str) : \E id \in Segments(str) : id[1] < sg[1]}

\* the value the field loop is to store for a well-formed field
StoredValue(m) == IF m.name = TName THEN parseObjectCoords(m.value) ELSE Text(m.value)

\* each segment is a well-formed field whose value is accepted, no two have
\* one name, and none is named as the time offset
PlainFields(segs) ==
    /\ \A sg \in segs :
           /\ MatchField(sg[2]) # Null
           /\ MatchField(sg[2]).name # Hash
           /\ StoredValue(MatchField(sg[2])) # Null
    /\ \A sg \in segs, tg \in segs :
           MatchField(sg[2]).name = MatchField(tg[2]).name => sg = tg

\* C21: Escaped separators.  An update record is split into fields only at
\* commas that no backslash precedes, so a value with '\,' is one field; the
\* number of fields stored from a record (of well-formed fields with
\* distinct names) is the number of non-empty segments between unescaped
\* commas after the id, and each is stored whole under its name.
C21_EscapedSeparators ==
    [][\A line \in LinesOf(trackFile) :
           (Reads("update", line) /\ PlainFields(FieldSegments(BufOf(line))))
               => /\ Len(LastEntry(UpdateKey(BufOf(line))))
                         = 1 + Cardinality(FieldSegments(BufOf(line)))
                  /\ \A sg \in FieldSegments(BufOf(line)) :
                         Get(LastEntry(UpdateKey(BufOf(line))), MatchField(sg[2]).name)
                             = StoredValue(MatchField(sg[2]))]_vars

\* C21: the record `1,,N=a\,b,M=c` was read: the entry holds its time and
\* the two fields N = `a\,b` and M = c
C21_Witness ==
    /\ UpdateKey(UpdateEscaped) \in DOMAIN data
    /\ \E i \in Positions(ValsOf(UpdateKey(UpdateEscaped))) :
           /\ Len(At(ValsOf(UpdateKey(UpdateEscaped)), i)) = 3
           /\ Get(At(ValsOf(UpdateKey(UpdateEscaped)), i), QueryName)
                  = Text(<<"a", "\\", ",", "b">>)
           /\ Get(At(ValsOf(UpdateKey(UpdateEscaped)), i), <<"M">>) = Text(<<"c">>)

\* the names of the attributes the entries of the timeline carry
AttrNames(vals) == UNION {{p.name : p \in Pairs(At(vals, i))} : i \in Positions(vals)}

\* the name is carried by exactly one entry of the timeline
Singleton(vals, n) == Cardinality(Carriers(vals, n)) = 1

\* the names of the properties of a TrackObject other than the id and the
\* data its constructor sets
ExposedNames(this) == {this[i].name : i \in DOMAIN this} \ {IdName, DataName}

StandsFor(vals, p, n) ==
    /\ Singleton(vals, n)
    /\ p.val = FirstCarrier(vals, n)
    /\ (p.name = n \/ p.name = <<"_">> \o n)

\* the TrackObject may have a property of the name n before the attribute n
\* is exposed: its id or data, or the property made for an attribute m with
\* '_' \o m = n
Taken(vals, n) ==
    \/ n \in {IdName, DataName}
    \/ \E m \in AttrNames(vals) : <<"_">> \o m = n

IsRest(i) == i > 1 /\ outFile[i - 1] # <<>> /\ outFile[i - 1][Len(outFile[i - 1])] = "\\"

\* the positions of the frame markers, of the removal records and of the
\* update records of the written file, after the two lines of the header
MarkerLines ==
    {i \in 3 .. Len(outFile) : ~IsRest(i) /\ outFile[i] # <<>> /\ outFile[i][1] = "#"}
RemovalLines ==
    {i \in 3 .. Len(outFile) : ~IsRest(i) /\ outFile[i] # <<>> /\ outFile[i][1] = "-"}
UpdateLines ==
    {i \in 3 .. Len(outFile) : ~IsRest(i) /\ outFile[i] # <<>>} \ (MarkerLines \cup RemovalLines)

\* the offset a frame marker of the written file gives
MarkerOffset(i) == ParseFloat(Tail(outFile[i]))

\* the offset in effect at the line i of the written file: that of the last
\* frame marker before it, 0 before the first
OffsetAt(i) ==
    IF \E j \in MarkerLines : j < i
    THEN MarkerOffset(CHOOSE j \in MarkerLines :
                          j < i /\ \A m \in MarkerLines : m < i => m <= j)
    ELSE Num(0)

\* the id an update record of the written file begins with
RecordId(line) == SubSeq(line, 1, SkipUntil(line, 1, {","}) - 1)

\* the id the records of the object under the key k are written with
WrittenId(k) == IntToString(ParseInt10(k).n, 16)

\* the elements of a sequence at the positions of a set, in their order
RECURSIVE Pick(_, _, _)
Pick(seq, set, i) ==
    IF i > Len(seq) THEN <<>>
    ELSE (IF i \in set THEN <<seq[i]>> ELSE <<>>) \o Pick(seq, set, i + 1)

\* the update records the written file has for the object under the key k,
\* in their order: the offset each stands under and its first line
WrittenUpdates(k) ==
    Pick([i \in DOMAIN outFile |-> <<OffsetAt(i), outFile[i]>>],
         {i \in UpdateLines : RecordId(outFile[i]) = WrittenId(k)}, 1)

\* the same for the entries of the timeline of k, in their order: the time
\* of each and the first line of the update record it is written as
TimelineUpdates(k) ==
    [i \in DOMAIN ValsOf(k) |->
        <<TimeAt(ValsOf(k), i - 1),
          SplitOn(WrittenId(k) \o WriteFields(ValsOf(k)[i]), EOL)[1]>>]

\* the offsets of the frame markers of the written file increase strictly
MarkersIncrease ==
    \A i \in MarkerLines, j \in MarkerLines :
        i < j => NumLT(MarkerOffset(i), MarkerOffset(j))

\* C23: Serializer ordering.  In the output of saveACMI the offsets of the
\* frame markers increase strictly, every update record stands under the
\* frame marker of the time of its entry (none is needed while the offset is
\* the initial 0), and the update records of one object come in the order of
\* the entries of its timeline, those of one time included.
C23_SaveOrder ==
    outFile # <<>> =>
        /\ MarkersIncrease
        /\ \A k \in DOMAIN data : WrittenUpdates(k) = TimelineUpdates(k)

\* the record at the line i of the written file is the removal record of
\* the object under the key k
RemovalOf(i, k) == i \in RemovalLines /\ outFile[i] = <<"-">> \o WrittenId(k)

\* C24: Removal records in the output.  saveACMI writes exactly one removal
\* record '-<hexId>' for each object whose end is set and none for an object
\* whose end is null; the removal record stands under the frame offset equal
\* to end, and no update record of the object with that time offset comes
\* after it.
C24_RemovalRecords ==
    outFile # <<>> =>
        /\ \A i \in RemovalLines : \E k \in DOMAIN data : RemovalOf(i, k)
        /\ \A k \in DOMAIN data :
               /\ Cardinality({i \in RemovalLines : RemovalOf(i, k)})
                      = IF data[k].end = Null THEN 0 ELSE 1
               /\ \A i \in RemovalLines :
                      RemovalOf(i, k) =>
                          /\ OffsetAt(i) = ToNumber(data[k].end)
                          /\ \A j \in UpdateLines :
                                 (/\ RecordId(outFile[j]) = WrittenId(k)
                                  /\ OffsetAt(j) = OffsetAt(i)) => j < i

\* C25: Malformed field.  When an update record has a field without '=',
\* either the record has no effect on the database (no object created, no
\* entry appended), or the malformed field alone is skipped and every other
\* field of the record is stored: never is an entry appended that holds the
\* fields before the malformed one and lacks those after it.
C25_MalformedField ==
    [][\A line \in LinesOf(trackFile) :
           (/\ Reads("update", line)
            /\ \E sg \in FieldSegments(BufOf(line)) : MatchField(sg[2]) = Null)
               => \/ data' = data
                  \/ /\ Appended(UpdateKey(BufOf(line)))
                     /\ \A sg \in FieldSegments(BufOf(line)) :
                            (MatchField(sg[2]) # Null /\ StoredValue(MatchField(sg[2])) # Null)
                                => Get(LastEntry(UpdateKey(BufOf(line))),
                                       MatchField(sg[2]).name)
                                       = StoredValue(MatchField(sg[2]))]_vars

\* the text is a non-negative decimal number, with or without a fraction
DecimalText(str) ==
    /\ str # <<>>
    /\ str[1] \in Digits
    /\ \A i \in DOMAIN str : str[i] \in Digits \cup {"."}
    /\ Cardinality({i \in DOMAIN str : str[i] = "."}) <= 1

\* C26: Malformed frame marker.  A record beginning with '#' whose remainder
\* is not wholly a non-negative decimal number (e.g. '#abc', '#5x') is
\* rejected as a parse error and does not change the current offset; a
\* well-formed remainder sets the offset to that number.
C26_MalformedFrame ==
    [][\A line \in LinesOf(trackFile) :
           Reads("frame", line) =>
               IF DecimalText(Tail(BufOf(line)))
               THEN error' = "" /\ currOffset' = ParseFloat(Tail(BufOf(line)))
               ELSE error' # "" /\ currOffset' = currOffset]_vars

\* the entry at position i holds a real number as its altitude
RealAlt(vals, i) ==
    /\ Has(At(vals, i), TName)
    /\ Get(At(vals, i), TName).k = "coords"
    /\ Len(Get(At(vals, i), TName).c) > C_ALT
    /\ Get(At(vals, i), TName).c[C_ALT + 1].k = "num"

\* real altitudes exist on the sides of T the query needs: anywhere when T
\* is not inside the timeline, at or before T and at or after T when it is
RealOnSides(vals, T) ==
    IF NumLE(Num(T), TimeAt(vals, 0)) \/ NumLE(TimeAt(vals, Len(vals) - 1), Num(T))
    THEN \E i \in Positions(vals) : RealAlt(vals, i)
    ELSE /\ \E i \in Positions(vals) : RealAlt(vals, i) /\ NumLE(TimeAt(vals, i), Num(T))
         /\ \E j \in Positions(vals) : RealAlt(vals, j) /\ NumLE(Num(T), TimeAt(vals, j))

\* C27: Absent coordinate components are not data.  A component written as
\* the empty string (stored as not-a-number) is missing for getCoordAtTime:
\* the entries the query chooses for the component hold a real number in it,
\* and the query never returns not-a-number while real values exist on the
\* sides of T it needs (timelines of strictly increasing times).
C27_AbsentComponent ==
    (Asked /\ ordered) =>
        \A k \in DOMAIN data :
            /\ \A i \in Positions(ValsOf(k)) :
                   CarriesAlt(ValsOf(k), i) => RealAlt(ValsOf(k), i)
            /\ \A T \in QueryTimes :
                   (/\ ValsOf(k) # <<>>
                    /\ Increasing(ValsOf(k))
                    /\ RealOnSides(ValsOf(k), T))
                       => answers[<<"coord", k, T>>].k = "num"

\* the line ends in the continuation marker
Continues(line) == Trim(line) # <<>> /\ Trim(line)[Len(Trim(line))] = "\\"

\* C28: Stream end in mid-continuation.  When the lines end while a
\* continuation is pending, the incomplete record is discarded without error
\* and the database returned is the one the complete records before it
\* made; more generally the database after any prefix is the one its
\* completed records made: a line that leaves its record incomplete changes
\* nothing.
C28_MidContinuation ==
    [][/\ EndOfFile => (data' = data /\ error' = "" /\ pc' = "loaded")
       /\ \A line \in LinesOf(trackFile) :
              (Continues(line) /\ ReadLine(line))
                  => (data' = data /\ error' = "" /\ pc' = "reading")]_vars

\* C28: object 1 has the entry of a complete record, and a continued line
\* was read after it: its record is pending where the lines may end
C28_Witness ==
    /\ pc = "reading"
    /\ nread = 2
    /\ lineBuffer = ContinuedLine
    /\ UpdateKey(UpdateA) \in DOMAIN data
    /\ Len(ValsOf(UpdateKey(UpdateA))) = 1

\* C29: findTimeIndex terminates and stays in range.  For every non-empty
\* timeline whose time offsets never decrease (repeated offsets allowed) and
\* every query time, the search ends with a position of the timeline: it
\* neither recurses on a range that did not shrink nor reads an entry past
\* the last one.
C29_TerminatesInRange ==
    [][Query =>
          \A k \in DOMAIN data, T \in QueryTimes :
              (ValsOf(k) # <<>> /\ NonDecreasing(ValsOf(k))) =>
                  /\ answers'[<<"index", k, T>>].k = "num"
                  /\ answers'[<<"index", k, T>>].d = 1
                  /\ answers'[<<"index", k, T>>].n \in 0 .. (Len(ValsOf(k)) - 1)]_vars

\* C29: a timeline of four entries with a repeated offset, searched to the
\* left (T = 2) and to the right past the repeated pair (T = 7)
C29_Witness ==
    /\ Asked
    /\ \E k \in DOMAIN data :
           /\ Len(ValsOf(k)) = 4
           /\ NonDecreasing(ValsOf(k))
           /\ ~Increasing(ValsOf(k))
           /\ answers[<<"index", k, 7>>] = Num(2)
           /\ answers[<<"index", k, 2>>] = Num(0)

\* the update record for the object of this key changed nothing but the end
\* of that object's timeline and, for an object not seen before, the
\* directory of ids
OnlyAppended(key) ==
    /\ DOMAIN data' = DOMAIN data \cup {key}
    /\ \A k \in DOMAIN data \ {key} : data'[k] = data[k]
    /\ Len(data'[key].vals) = (IF key \in DOMAIN data THEN Len(data[key].vals) ELSE 0) + 1
    /\ key \in DOMAIN data =>
           /\ data'[key].start = data[key].start
           /\ data'[key].end = data[key].end
           /\ SubSeq(data'[key].vals, 1, Len(data[key].vals)) = data[key].vals

\* C30: Append-only frame property.  Processing one update record for an
\* object changes nothing but that object's timeline, by appending at its
\* end, and the id directory if the object was absent: every other object,
\* the object's start and end and its earlier entries are unchanged; and a
\* frame marker, comment, blank, header or unrecognized record changes no
\* object at all.
C30_AppendOnly ==
    [][/\ \A line \in LinesOf(trackFile) :
              /\ Reads("update", line) => OnlyAppended(UpdateKey(BufOf(line)))
              /\ \A kind \in {"skip", "comment", "frame", "other"} :
                     Reads(kind, line) => data' = data
       /\ Record => OnlyAppended(UpdateKey(UpdateBare))]_vars

\* C30: object 10 was stored with its attributes and then two update
\* records of object 1 were read, the second appending behind the first
C30_Witness ==
    /\ pc = "reading"
    /\ nread = 3
    /\ DOMAIN data = {GlobalKey, UpdateKey(UpdateA), UpdateKey(UpdateHex)}
    /\ Len(ValsOf(UpdateKey(UpdateA))) = 2
    /\ ValsOf(UpdateKey(UpdateA))[1] # ValsOf(UpdateKey(UpdateA))[2]
    /\ Len(ValsOf(UpdateKey(UpdateHex))) = 1

=============================================================================
